---------------------------- MODULE Spec2Model ----------------------------
(***************************************************************************)
(* Model of the Inventory Management System (taylfrad/CMPS3400_Grp_A).      *)
(*                                                                         *)
(*   Spec            the orchestrator: module configuration of main.py,    *)
(*                   main(), the menu loop and the three workflows         *)
(*   SpecLive        the menu loop under the fairness of input()           *)
(*   SpecSession     a session of calls on the loader, the numeric and     *)
(*                   the categorical analyzer                              *)
(*   SpecVector      the vector algebra and the vector analyzer's display  *)
(*                   on a pickled table                                    *)
(*   SpecProbability the joint / conditional probabilities and the         *)
(*                   combinations / permutations on a pickled table        *)
(*   SpecCharts      a session of analyzer, chart and export calls         *)
(*   SpecMenu        the menu loop of main() and ui.get_user_choice        *)
(*                                                                         *)
(* Python exceptions are modelled by outcome records                       *)
(*   [raised, exc, ret, out]: raised = TRUE is a propagating exception of  *)
(* class exc, otherwise ret is the returned value; out is the sequence of  *)
(* status lines the call wrote to the console.                             *)
(***************************************************************************)
EXTENDS Integers, Sequences, FiniteSets, TLC

VARIABLES
    runMode,    \* how main.py is executed: "script" or "cells" (#%% cells)
    pc,         \* position of the orchestrator
    exc,        \* class of the last exception that escaped a cell / main()
    stdin,      \* line waiting on standard input, NoLine when none
    reads,      \* number of lines typed so far
    workflow,   \* menu selection being served while pc = "Running"
    out,        \* status lines written by the last handler
    menus,      \* number of times the main menu has been displayed
    files,      \* file system: path -> file content
    df,         \* session: value returned by the loader
    obj,        \* session: analyzer object state
    res         \* session: result of the last analyzer operation

vars == <<runMode, pc, exc, stdin, reads, workflow, out, menus, files, df, obj, res>>

-----------------------------------------------------------------------------
(* Bounds *)

MaxReads == 3        \* lines typed on standard input in one run
MaxLineLen == 2      \* characters in one typed line
MaxRows == 3         \* rows of a table
MaxVal == 2          \* largest Stock / ReorderLevel value
MaxVec == 1          \* largest absolute value of a vector component
MaxDim == 3          \* rows of a vector table
MaxR == 3            \* largest r of a combination / permutation

-----------------------------------------------------------------------------
(* config.py *)

CONFIG ==
    [inventory_numeric_csv     |-> "./Input/inventory_numeric.csv",
     inventory_categorical_csv |-> "./Input/inventory_categorical.csv",
     output_dir                |-> "./Output/",
     doc_dir                   |-> "./Doc/",
     log_file                  |-> "./Output/project.log"]

\* attribute names of a Python dict object (its methods); none is a key
DictAttributes ==
    {"clear", "copy", "fromkeys", "get", "items", "keys", "pop", "popitem",
     "setdefault", "update", "values"}

Return(v, lines) == [raised |-> FALSE, exc |-> "", ret |-> v, out |-> lines]
Raise(e, lines) == [raised |-> TRUE, exc |-> e, ret |-> FALSE, out |-> lines]

\* CONFIG[name]: subscript access on the dict
ConfigItem(name) ==
    IF name \in DOMAIN CONFIG
    THEN [raised |-> FALSE, exc |-> "", ret |-> CONFIG[name]]
    ELSE [raised |-> TRUE, exc |-> "KeyError", ret |-> ""]

\* CONFIG.name: attribute access on the dict; keys are not attributes
ConfigAttr(name) ==
    IF name \in DictAttributes
    THEN [raised |-> FALSE, exc |-> "", ret |-> "<bound method>"]
    ELSE [raised |-> TRUE, exc |-> "AttributeError", ret |-> ""]

-----------------------------------------------------------------------------
(* Tables and files *)

NaN == -1000         \* missing numeric value (no real value is that small)
NaS == "<NaN>"       \* missing string value

NumericRequired == <<"ProductID", "Stock", "Price", "ReorderLevel">>
CategoricalRequired == <<"ProductID", "ProductName", "Category", "HazardClass", "Supplier">>

None == [kind |-> "None", columns |-> <<>>, rows |-> <<>>]
Unset == [kind |-> "unset", columns |-> <<>>, rows |-> <<>>]
Table(cols, rows) == [kind |-> "table", columns |-> cols, rows |-> rows]
NoFile(k) == [kind |-> k, columns |-> <<>>, rows |-> <<>>]

Range(s) == {s[i] : i \in DOMAIN s}

PickleFile == "./Input/vector_test_data.pkl"
AirQualityFile == "./Input/air_quality_data.csv"
Paths ==
    {CONFIG.inventory_numeric_csv, CONFIG.inventory_categorical_csv,
     PickleFile, AirQualityFile}

\* decimal digits; a field of a CSV text is a sequence of characters, or
\* the one-element sequence of a string that is not a number
Digits == {"0", "1", "2", "3", "4", "5", "6", "7", "8", "9"}

DigitVal(c) ==
    CASE c = "0" -> 0 [] c = "1" -> 1 [] c = "2" -> 2 [] c = "3" -> 3
      [] c = "4" -> 4 [] c = "5" -> 5 [] c = "6" -> 6 [] c = "7" -> 7
      [] c = "8" -> 8 [] c = "9" -> 9

RECURSIVE DecVal(_)
DecVal(s) == IF s = <<>> THEN 0 ELSE 10 * DecVal(SubSeq(s, 1, Len(s) - 1)) + DigitVal(s[Len(s)])

\* the parser of pd.read_csv on a written text: a column whose fields are
\* all numbers or empty is numeric (an empty field is a missing value);
\* any other column holds the strings, an empty field a missing one
parse_csv(text) ==
    LET IsDigits(s) == s # <<>> /\ \A i \in DOMAIN s : s[i] \in Digits
        IsNumber(f) ==
            \/ IsDigits(f)
            \/ /\ Len(f) >= 3
               /\ IsDigits(SubSeq(f, 1, Len(f) - 2))
               /\ SubSeq(f, Len(f) - 1, Len(f)) = <<".", "0">>
        NumberOf(f) == IF IsDigits(f) THEN DecVal(f) ELSE DecVal(SubSeq(f, 1, Len(f) - 2))
        numeric(c) ==
            \A i \in DOMAIN text.rows : text.rows[i][c] = <<>> \/ IsNumber(text.rows[i][c])
        value(c, f) ==
            IF numeric(c) THEN (IF f = <<>> THEN NaN ELSE NumberOf(f))
            ELSE (IF f = <<>> THEN NaS ELSE f[1])
    IN  Table(text.columns,
              [i \in DOMAIN text.rows |->
                  [c \in Range(text.columns) |-> value(c, text.rows[i][c])]])

\* pd.read_csv / pd.read_pickle on a file of the given content
ReadExc(kind) ==
    CASE kind = "missing"    -> "FileNotFoundError"
      [] kind = "unreadable" -> "PermissionError"
      [] kind = "empty"      -> "EmptyDataError"
      [] OTHER               -> "ParserError"

read_csv(fs, path) ==
    IF path \notin DOMAIN fs THEN Raise("FileNotFoundError", <<>>)
    ELSE IF fs[path].kind = "table" THEN Return(fs[path], <<>>)
    ELSE IF fs[path].kind = "text" THEN Return(parse_csv(fs[path]), <<>>)
    ELSE Raise(ReadExc(fs[path].kind), <<>>)

exists(fs, path) == path \in DOMAIN fs /\ fs[path].kind # "missing"


-----------------------------------------------------------------------------
(* ui.py, data_ingestion.py: the loader *)

\* load_data without its except clause: the read error propagates
load_data_reraise(fs, path) ==
    LET r == read_csv(fs, path)
    IN  IF r.raised
        THEN Raise(r.exc, <<>>)
        ELSE Return(r.ret, <<"Successfully loaded", "Found records">>)

\* ui.load_data: the read is wrapped in try / except Exception
load_data(fs, path) ==
    LET r == read_csv(fs, path)
    IN  IF r.raised
        THEN Return(None, <<"Error loading data">>)
        ELSE Return(r.ret, <<"Successfully loaded", "Found records">>)

\* data_ingestion.read_air_quality_data: same shape, logs instead of printing
read_air_quality_data(fs, path) ==
    LET r == read_csv(fs, path)
    IN  IF r.raised THEN Return(None, <<>>) ELSE Return(r.ret, <<>>)

-----------------------------------------------------------------------------
(* inventory_numeric.py, inventory_categorical.py: schema validation *)

\* MissingColumns that reports the first missing column only
MissingColumns_first(required, data) ==
    LET all == SelectSeq(required, LAMBDA c : c \notin Range(data.columns))
    IN  IF all = <<>> THEN <<>> ELSE <<Head(all)>>

\* [c for c in required if c not in data.columns]
MissingColumns(required, data) ==
    SelectSeq(required, LAMBDA c : c \notin Range(data.columns))

\* InventoryNumeric.__init__ (InventoryNumericProcessor.__init__ only calls it)
InventoryNumeric_init(data) ==
    LET missing == MissingColumns(NumericRequired, data)
    IN  IF missing # <<>>
        THEN [raised |-> TRUE, exc |-> "ValueError", msg |-> missing]
        ELSE [raised |-> FALSE, exc |-> "", msg |-> <<>>]

\* InventoryCategorical.__init__
InventoryCategorical_init(data) ==
    LET missing_columns == MissingColumns(CategoricalRequired, data)
    IN  IF missing_columns # <<>>
        THEN [raised |-> TRUE, exc |-> "ValueError", msg |-> missing_columns]
        ELSE [raised |-> FALSE, exc |-> "", msg |-> <<>>]

-----------------------------------------------------------------------------
(* visualization.py: save_plot as the numeric charts call it *)

\* def save_plot(filename): one positional parameter
save_plot(args) ==
    IF Len(args) # 1
    THEN Raise("TypeError", <<>>)
    ELSE Return(CONFIG.output_dir \o args[1], <<>>)

\* InventoryNumeric.plot_histogram: return save_plot(fig, f"{col}_histogram.png")
plot_histogram(col) == save_plot(<<"fig", col \o "_histogram.png">>)

\* InventoryNumeric.plot_line: return save_plot(fig, f"{x_col}_{y_col}_line.png")
plot_line(x_col, y_col) == save_plot(<<"fig", x_col \o "_" \o y_col \o "_line.png">>)

VizPrompt == "Generate visualizations? (y/n)"
Status(operation, success) ==
    operation \o (IF success THEN ": SUCCESS" ELSE ": FAILED")

\* process_and_display with show_operation_status(..., True) placed after
\* the try statement: SUCCESS is printed whatever the charts did
numeric_process_and_display_after_try(data, answer) ==
    LET reports == <<"BASIC INVENTORY STATISTICS", "NUMERICAL INVENTORY REPORT">>
    IN  IF answer
        THEN Return(TRUE, reports \o <<VizPrompt,
                                       Status("Numeric advanced visualizations", TRUE)>>)
        ELSE Return(TRUE, reports \o <<VizPrompt>>)

\* InventoryNumericProcessor.process_and_display on a validated table;
\* answer is the reply to ui.get_visualization_choice()
numeric_process_and_display(data, answer) ==
    LET reports == <<"BASIC INVENTORY STATISTICS", "NUMERICAL INVENTORY REPORT">>
        charts == <<plot_histogram("Stock"), plot_line("ProductID", "Stock"),
                    plot_histogram("Price"), plot_line("ProductID", "Price")>>
        export == ConfigAttr("output_dir")
        ok == (\A i \in DOMAIN charts : ~charts[i].raised) /\ ~export.raised
    IN  IF answer
        THEN Return(TRUE, reports \o <<VizPrompt, Status("Numeric advanced visualizations", ok)>>)
        ELSE Return(TRUE, reports \o <<VizPrompt>>)

-----------------------------------------------------------------------------
(* main.py: the workflows *)

NumericDtype == {"ProductID", "Stock", "Price", "ReorderLevel", "VectorA", "VectorB"}

\* data.select_dtypes(include='number').columns / include='object'
NumberColumns(data) == SelectSeq(data.columns, LAMBDA c : c \in NumericDtype)
ObjectColumns(data) == SelectSeq(data.columns, LAMBDA c : c \notin NumericDtype)

\* process_numeric_data(auto_visualize); answer1 and answer2 are the replies
\* to the two ui.get_visualization_choice() prompts
process_numeric_data(auto_visualize, fs, answer1, answer2) ==
    LET path == ConfigAttr("inventory_numeric_csv")
        loaded == load_data(fs, path.ret)
        proc == InventoryNumeric_init(loaded.ret)
        shown == numeric_process_and_display(loaded.ret, answer1)
        asked == IF auto_visualize THEN <<>> ELSE <<VizPrompt>>
        \* viz_functions run in order; 'histogram' is the first
        firstViz == plot_histogram("Stock")
        viz == IF auto_visualize \/ answer2
               THEN <<Status("Numeric visualizations", ~firstViz.raised)>>
               ELSE <<>>
    IN  IF path.raised THEN Raise(path.exc, <<>>)
        ELSE IF loaded.ret = None THEN Return(FALSE, loaded.out)
        ELSE IF proc.raised THEN Raise(proc.exc, loaded.out)
        ELSE Return(TRUE, loaded.out \o shown.out \o asked \o viz)

\* InventoryVector.from_pickle(CONFIG.input_pickle), as evaluated inside the
\* try block of process_vector_data
from_pickle_config(fs) ==
    LET path == ConfigAttr("input_pickle")
    IN  IF path.raised THEN Raise(path.exc, <<>>) ELSE read_csv(fs, path.ret)

\* process_vector_data()
process_vector_data(fs) ==
    LET parent == from_pickle_config(fs)
        cols == NumberColumns(parent.ret)
        cat_cols == ObjectColumns(parent.ret)
        joint == IF Len(cols) >= 2
                 THEN <<"Joint Counts", "Joint Probabilities", "Vector Operations">>
                 ELSE <<"Not enough numeric columns for joint analytics.">>
        combos == IF Len(cat_cols) >= 1
                  THEN <<"Combinations", "Permutations">>
                  ELSE <<"No categorical column for combos/perms.">>
    IN  IF parent.raised
        THEN Return(FALSE, <<"Error loading pickle: " \o parent.exc>>)
        ELSE Return(TRUE, joint \o combos)

\* run_all_processes()
run_all_processes(fs, answer1) ==
    LET ok_num == process_numeric_data(TRUE, fs, answer1, FALSE)
        ok_vec == process_vector_data(fs)
        failed_num == IF ok_num.ret THEN <<>> ELSE <<Status("Numeric workflow", FALSE)>>
        failed_vec == IF ok_vec.ret THEN <<>> ELSE <<Status("Vector workflow", FALSE)>>
        banner == <<"RUNNING COMPLETE INVENTORY ANALYSIS">>
    IN  IF ok_num.raised THEN Raise(ok_num.exc, banner \o ok_num.out)
        ELSE IF ok_vec.raised THEN Raise(ok_vec.exc, banner \o ok_num.out \o ok_vec.out)
        ELSE Return(TRUE, banner \o ok_num.out \o ok_vec.out \o failed_num
                          \o failed_vec \o <<"PROCESSING COMPLETE">>)

-----------------------------------------------------------------------------
(* Standard input: lines are sequences of characters *)

NoLine == <<"<no line>">>
Alphabet == {"1", "2", "3", "4", " ", "y", "Y"}

RECURSIVE SeqsUpTo(_, _)
SeqsUpTo(S, n) ==
    IF n = 0 THEN {<<>>}
    ELSE LET shorter == SeqsUpTo(S, n - 1)
         IN  shorter \cup {Append(s, x) : s \in shorter, x \in S}

Lines == SeqsUpTo(Alphabet, MaxLineLen)

RECURSIVE LStrip(_)
LStrip(s) == IF s # <<>> /\ Head(s) = " " THEN LStrip(Tail(s)) ELSE s

RECURSIVE RStrip(_)
RStrip(s) ==
    IF s # <<>> /\ s[Len(s)] = " " THEN RStrip(SubSeq(s, 1, Len(s) - 1)) ELSE s

\* int(line): surrounding blanks stripped, optional sign, one or more digits
PyInt(line) ==
    LET t == RStrip(LStrip(line))
        signed == t # <<>> /\ Head(t) \in {"-", "+"}
        body == IF signed THEN Tail(t) ELSE t
        value == DecVal(body)
    IN  IF body # <<>> /\ \A i \in DOMAIN body : body[i] \in Digits
        THEN [raised |-> FALSE, exc |-> "",
              ret |-> IF signed /\ Head(t) = "-" THEN 0 - value ELSE value]
        ELSE [raised |-> TRUE, exc |-> "ValueError", ret |-> 0]

\* str.lower() on a line
Lower(line) == [i \in DOMAIN line |-> IF line[i] = "Y" THEN "y" ELSE line[i]]

-----------------------------------------------------------------------------
(* File systems the orchestrator is run on *)

SampleNumeric ==
    Table(NumericRequired,
          <<[ProductID |-> 101, Stock |-> 5, Price |-> 10, ReorderLevel |-> 8],
            [ProductID |-> 102, Stock |-> 50, Price |-> 20, ReorderLevel |-> 8]>>)

SampleNoPrice ==
    Table(<<"ProductID", "Stock", "ReorderLevel">>,
          <<[ProductID |-> 101, Stock |-> 5, ReorderLevel |-> 8]>>)

SampleCategorical ==
    Table(CategoricalRequired,
          <<[ProductID |-> 101, ProductName |-> "Laptop", Category |-> "Electronics",
             HazardClass |-> "A", Supplier |-> "TechWorld Inc."]>>)

\* the table generate_test_pickle.py writes
SamplePickle ==
    Table(<<"VectorA", "VectorB", "Category">>,
          <<[VectorA |-> 1, VectorB |-> 4, Category |-> "X"],
            [VectorA |-> 2, VectorB |-> 5, Category |-> "Y"],
            [VectorA |-> 3, VectorB |-> 6, Category |-> "Z"]>>)

MainFileSystems ==
    {[p \in Paths |->
        CASE p = CONFIG.inventory_numeric_csv -> n
          [] p = CONFIG.inventory_categorical_csv -> c
          [] p = PickleFile -> k
          [] OTHER -> NoFile("missing")] :
     n \in {NoFile("missing"), SampleNoPrice, SampleNumeric},
     c \in {NoFile("missing"), SampleCategorical},
     k \in {NoFile("missing"), SamplePickle}}

NoResult == [op |-> "none", val |-> 0]

-----------------------------------------------------------------------------
(* main.py: module configuration, main() and the menu loop *)

Init ==
    /\ runMode \in {"script", "cells"}
    /\ pc = "module"
    /\ exc = ""
    /\ stdin = NoLine
    /\ reads = 0
    /\ workflow = 0
    /\ out = <<>>
    /\ menus = 0
    /\ files \in MainFileSystems
    /\ df = Unset
    /\ obj = "none"
    /\ res = NoResult

session == <<df, obj, res>>

\* lines 86-91: os.makedirs(CONFIG.output_dir), logging.basicConfig(filename=
\* CONFIG.log_file).  Run as a script, an exception here ends the program;
\* run cell by cell, the later cells (FUNCTIONS, SELF-RUN) can still be run.
ModuleConfiguration ==
    /\ pc = "module"
    /\ LET dir == ConfigAttr("output_dir")
           log == ConfigAttr("log_file")
           failed == dir.raised \/ log.raised
       IN  /\ exc' = IF dir.raised THEN dir.exc ELSE IF log.raised THEN log.exc ELSE exc
           /\ pc' = IF failed /\ runMode = "script" THEN "import_error" ELSE "main"
    /\ UNCHANGED <<runMode, stdin, reads, workflow, out, menus, files, session>>

\* files_exist with 'or' between the two os.path.exists tests
files_exist_either(fs) ==
    LET numeric_file == ConfigItem("inventory_numeric_csv")
        categorical_file == ConfigItem("inventory_categorical_csv")
    IN  IF numeric_file.raised \/ categorical_file.raised
        THEN Raise("KeyError", <<>>)
        ELSE Return(exists(fs, numeric_file.ret) \/ exists(fs, categorical_file.ret), <<>>)

\* ui.confirm_file_paths(), up to its input() call
files_exist(fs) ==
    LET numeric_file == ConfigItem("inventory_numeric_csv")
        categorical_file == ConfigItem("inventory_categorical_csv")
    IN  IF numeric_file.raised \/ categorical_file.raised
        THEN Raise("KeyError", <<>>)
        ELSE Return(exists(fs, numeric_file.ret) /\ exists(fs, categorical_file.ret), <<>>)

\* main() lines 190-224: welcome message, demos, confirm_file_paths()
MainStart ==
    /\ pc = "main"
    /\ LET found == files_exist(files)
       IN  IF found.raised
           THEN /\ pc' = "Crashed" /\ exc' = found.exc /\ out' = out /\ menus' = menus
           ELSE IF found.ret
           THEN /\ pc' = "MainMenu" /\ exc' = exc /\ out' = <<>> /\ menus' = menus + 1
           ELSE /\ pc' = "confirm" /\ exc' = exc /\ menus' = menus
                /\ out' = <<"WARNING: One or more data files not found:">>
    /\ UNCHANGED <<runMode, stdin, reads, workflow, files, session>>

\* the user types one line while the program blocks in input()
UserTypes ==
    /\ pc \in {"confirm", "MainMenu"}
    /\ stdin = NoLine
    /\ reads < MaxReads
    /\ \E line \in Lines : stdin' = line
    /\ reads' = reads + 1
    /\ UNCHANGED <<runMode, pc, exc, workflow, out, menus, files, session>>

\* confirm_file_paths(): return response.lower() == 'y'; main() returns on False
ConfirmAnswer ==
    /\ pc = "confirm"
    /\ stdin # NoLine
    /\ IF Lower(stdin) = <<"y">>
       THEN /\ pc' = "MainMenu" /\ menus' = menus + 1 /\ out' = <<>>
       ELSE /\ pc' = "Declined" /\ menus' = menus /\ out' = out
    /\ stdin' = NoLine
    /\ UNCHANGED <<runMode, exc, reads, workflow, files, session>>

\* Dispatch with the exit branch lost: 4 falls through to the next menu
Dispatch_no_exit(choice) ==
    CASE choice = 1 -> "numeric"
      [] choice = 2 -> "vector"
      [] choice = 3 -> "all"
      [] OTHER -> "menu"

\* main() lines 235-244: the if / elif chain on choice
Dispatch(choice) ==
    CASE choice = 1 -> "numeric"
      [] choice = 2 -> "vector"
      [] choice = 3 -> "all"
      [] choice = 4 -> "exit"
      [] OTHER -> "menu"

\* main() lines 230-244: read the choice and branch
MenuRead ==
    /\ pc = "MainMenu"
    /\ stdin # NoLine
    /\ LET choice == PyInt(stdin)
           branch == IF choice.raised THEN "menu" ELSE Dispatch(choice.ret)
       IN  /\ pc' = CASE branch = "menu" -> "MainMenu"
                      [] branch = "exit" -> "Exit"
                      [] OTHER -> "Running"
           /\ workflow' = IF branch \in {"numeric", "vector", "all"} THEN choice.ret ELSE 0
           /\ menus' = IF branch = "menu" THEN menus + 1 ELSE menus
           /\ out' = IF branch = "exit" THEN <<"Exiting. Goodbye!">> ELSE <<>>
    /\ stdin' = NoLine
    /\ UNCHANGED <<runMode, exc, reads, files, session>>

\* the workflow call returns to the loop, or its exception leaves main()
Finish(result) ==
    /\ out' = result.out
    /\ workflow' = 0
    /\ IF result.raised
       THEN /\ pc' = "Crashed" /\ exc' = result.exc /\ menus' = menus
       ELSE /\ pc' = "MainMenu" /\ exc' = exc /\ menus' = menus + 1
    /\ UNCHANGED <<runMode, stdin, reads, files, session>>

\* choice == 1: process_numeric_data()
RunNumeric ==
    /\ pc = "Running" /\ workflow = 1
    /\ \E answer1, answer2 \in BOOLEAN :
           Finish(process_numeric_data(FALSE, files, answer1, answer2))

\* choice == 2: process_vector_data()
RunVector ==
    /\ pc = "Running" /\ workflow = 2
    /\ Finish(process_vector_data(files))

\* choice == 3: run_all_processes()
RunAll ==
    /\ pc = "Running" /\ workflow = 3
    /\ \E answer1 \in BOOLEAN : Finish(run_all_processes(files, answer1))

Next ==
    \/ ModuleConfiguration
    \/ MainStart
    \/ UserTypes
    \/ ConfirmAnswer
    \/ MenuRead
    \/ RunNumeric
    \/ RunVector
    \/ RunAll

Spec == Init /\ [][Next]_vars

\* the runs that start with every input file in place, or with none of them
LiveFileSystems ==
    {fs \in MainFileSystems :
        \/ \A p \in {CONFIG.inventory_numeric_csv, CONFIG.inventory_categorical_csv,
                      PickleFile} : exists(fs, p)
        \/ \A p \in Paths : ~exists(fs, p)}

InitLive == Init /\ files \in LiveFileSystems

\* the blocking input() of the menu loop returns once a line has been typed
SpecLive == InitLive /\ [][Next]_vars /\ WF_vars(MenuRead)

-----------------------------------------------------------------------------
(* Claims about the orchestrator *)

Selected(n) ==
    pc = "MainMenu" /\ stdin # NoLine /\ ~PyInt(stdin).raised /\ PyInt(stdin).ret = n

\* C1: no failure raised while a workflow is running terminates the menu loop
\* of main(): main() is never left by an exception, the menu comes back.
C1_NoFailureEndsMenuLoop == pc # "Crashed"

\* C2: the orchestrator is a state machine over {MainMenu, Running, Exit}:
\* Running is entered only from MainMenu by selection 1, 2 or 3; the state
\* after Running is always MainMenu; Exit is entered only from MainMenu by
\* selection 4; nothing runs after Exit.
C2_StateMachine ==
    [][/\ (pc # "Running" /\ pc' = "Running")
            => (pc = "MainMenu" /\ (Selected(1) \/ Selected(2) \/ Selected(3))
                /\ workflow' = PyInt(stdin).ret)
       /\ (pc = "Running" /\ pc' # "Running") => pc' = "MainMenu"
       /\ (pc # "Exit" /\ pc' = "Exit") => Selected(4)
       /\ pc = "Exit" => (pc' = "Exit" /\ out' = out /\ workflow' = 0)]_vars

\* C3: selection 4 at the main menu ends the loop with a normal return of
\* main() and starts no workflow; once 4 has been entered the program
\* eventually terminates, and a terminated program runs nothing further.
C3_ExitOnFour ==
    /\ [][/\ (Selected(4) /\ stdin' = NoLine)
               => (pc' = "Exit" /\ workflow' = 0 /\ exc' = exc)
          /\ pc = "Exit" => (pc' = "Exit" /\ workflow' = 0)]_vars
    /\ (Selected(4) ~> pc = "Exit")

C3_Witness == pc = "Exit" /\ out = <<"Exiting. Goodbye!">> /\ reads > 1

\* C6: every configuration path that start-up or a workflow reads is defined
\* in the constants module and resolves the way the reading code accesses it:
\* no configuration read fails, at import or in a workflow.
C6_ConfigPathsResolve ==
    /\ pc # "import_error"
    /\ exc \notin {"AttributeError", "KeyError"}

-----------------------------------------------------------------------------
(* inventory_numeric.py: the numeric analyzer *)

\* the comparison of DataFrame.query: false when an operand is missing
Less(a, b) == a # NaN /\ b # NaN /\ a < b
LessOrEqual(a, b) == a # NaN /\ b # NaN /\ a <= b

\* items_below_reorder with <= in the query
items_below_reorder_inclusive(data) ==
    Table(data.columns,
          SelectSeq(data.rows, LAMBDA r : LessOrEqual(r.Stock, r.ReorderLevel)))

\* InventoryNumericProcessor.items_below_reorder:
\* self._data.query("Stock < ReorderLevel")
items_below_reorder(data) ==
    Table(data.columns,
          SelectSeq(data.rows, LAMBDA r : Less(r.Stock, r.ReorderLevel)))

\* Series.sum(): left to right, missing values skipped, 0 for no values
RECURSIVE SeriesSum(_)
SeriesSum(values) ==
    IF values = <<>> THEN 0
    ELSE LET n == Len(values)
             rest == SeriesSum(SubSeq(values, 1, n - 1))
         IN  IF values[n] = NaN THEN rest ELSE rest + values[n]

Column(data, col) == [i \in DOMAIN data.rows |-> data.rows[i][col]]

\* calculate_total_stock that leaves out the first row
calculate_total_stock_skip_first(data) ==
    IF data.rows = <<>> THEN 0 ELSE SeriesSum(Tail(Column(data, "Stock")))

\* InventoryNumeric.calculate_total_stock: int(self._data['Stock'].sum())
calculate_total_stock(data) == SeriesSum(Column(data, "Stock"))

-----------------------------------------------------------------------------
(* inventory_categorical.py: the categorical analyzer *)

\* code-point order of the strings used as keys
Rank(key) ==
    CASE key = "A" -> 1 [] key = "B" -> 2 [] key = "C" -> 3
      [] key = "Cleaning" -> 4 [] key = "D" -> 5 [] key = "Electronics" -> 6
      [] key = "FurniTech" -> 7 [] key = "TechWorld Inc." -> 8

RECURSIVE SortKeys(_)
SortKeys(S) ==
    IF S = {} THEN <<>>
    ELSE LET m == CHOOSE x \in S : \A y \in S : Rank(x) <= Rank(y)
         IN  <<m>> \o SortKeys(S \ {m})

\* the distinct non-missing values of a column in first-seen order
RECURSIVE FirstSeen(_)
FirstSeen(values) ==
    IF values = <<>> THEN <<>>
    ELSE LET n == Len(values)
             before == FirstSeen(SubSeq(values, 1, n - 1))
         IN  IF values[n] = NaS \/ values[n] \in Range(before)
             THEN before ELSE Append(before, values[n])

CountOf(data, col, key) == Cardinality({i \in DOMAIN data.rows : data.rows[i][col] = key})

\* groupby(col, sort=False).size(): keys in first-seen order
groupby_size_unsorted(data, col) ==
    LET keys == FirstSeen(Column(data, col))
    IN  [i \in DOMAIN keys |-> <<keys[i], CountOf(data, col, keys[i])>>]

\* groupby(col).nunique()-like slip: every key counted once
groupby_size_distinct(data, col) ==
    LET keys == SortKeys(Range(Column(data, col)) \ {NaS})
    IN  [i \in DOMAIN keys |-> <<keys[i], 1>>]

\* self.data.groupby(col).size(): pandas defaults sort=True, dropna=True;
\* the Series is modelled as the sequence of <<key, count>> in index order
groupby_size(data, col) ==
    LET keys == SortKeys(Range(Column(data, col)) \ {NaS})
    IN  [i \in DOMAIN keys |-> <<keys[i], CountOf(data, col, keys[i])>>]

\* InventoryCategorical.count_by_category / count_by_supplier,
\* InventoryCategoricalProcessor.count_by_hazard_class
count_by_category(data) == groupby_size(data, "Category")
count_by_supplier(data) == groupby_size(data, "Supplier")
count_by_hazard_class(data) == groupby_size(data, "HazardClass")

\* d[key] = value on an insertion-ordered dict
dict_set(d, key, value) ==
    IF \E i \in DOMAIN d : d[i][1] = key
    THEN [i \in DOMAIN d |-> IF d[i][1] = key THEN <<key, value>> ELSE d[i]]
    ELSE Append(d, <<key, value>>)

\* Series.to_dict(): the items inserted in index order
RECURSIVE to_dict(_)
to_dict(series) ==
    IF series = <<>> THEN <<>>
    ELSE LET n == Len(series)
         IN  dict_set(to_dict(SubSeq(series, 1, n - 1)), series[n][1], series[n][2])

\* InventoryCategoricalProcessor.generate_category_report
generate_category_report(data) ==
    <<<<"Items by Category", to_dict(count_by_category(data))>>,
      <<"Items by Supplier", to_dict(count_by_supplier(data))>>,
      <<"Items by HazardClass", to_dict(count_by_hazard_class(data))>>>>

-----------------------------------------------------------------------------
(* Sessions over the loader and the analyzers: the calls the self-run blocks *)
(* and the workflows make, on files of every content within the bounds      *)

StockVals == 0..MaxVal \cup {NaN}
LevelVals == {1, MaxVal}
CategoryVals == {"Cleaning", "Electronics", NaS}
HazardVals == {"A", "B", NaS}
SupplierVals == {"FurniTech", "TechWorld Inc.", NaS}

\* ProductID is a unique key, stored ascending or descending
ProductIDs(n) == {[i \in 1..n |-> 100 + i], [i \in 1..n |-> 101 + n - i]}

NumericTable(ids, stock, level) ==
    Table(NumericRequired,
          [i \in DOMAIN ids |-> [ProductID |-> ids[i], Stock |-> stock[i],
                                 Price |-> 10 * i, ReorderLevel |-> level[i]]])

ColumnVals(col) ==
    CASE col = "Category" -> CategoryVals
      [] col = "HazardClass" -> HazardVals
      [] col = "Supplier" -> SupplierVals

\* column col takes the values v, the other columns hold one value
CategoricalTable(col, v) ==
    Table(CategoricalRequired,
          [i \in DOMAIN v |->
              [ProductID |-> 100 + i, ProductName |-> "Laptop",
               Category |-> IF col = "Category" THEN v[i] ELSE "Cleaning",
               HazardClass |-> IF col = "HazardClass" THEN v[i] ELSE "A",
               Supplier |-> IF col = "Supplier" THEN v[i] ELSE "FurniTech"]])

\* the sub-sequence of the columns in keep, and a table with one row over them
Keep(columns, keep) == SelectSeq(columns, LAMBDA c : c \in keep)
Project(row, columns) == [c \in Range(columns) |-> row[c]]

PartialTables(sample) ==
    {Table(Keep(sample.columns, keep), <<Project(sample.rows[1], Keep(sample.columns, keep))>>) :
     keep \in SUBSET Range(sample.columns)}

BadFiles == {NoFile("missing"), NoFile("unreadable"), NoFile("empty"), NoFile("malformed")}

FileSystem(numeric, categorical) ==
    [p \in Paths |->
        CASE p = CONFIG.inventory_numeric_csv -> numeric
          [] p = CONFIG.inventory_categorical_csv -> categorical
          [] OTHER -> NoFile("missing")]

\* one of the two CSV files is there: unreadable, lacking columns, or a
\* table of up to MaxRows rows
SessionFiles(fs) ==
    \/ \E bad \in BadFiles \cup PartialTables(SampleNumeric) :
           fs = FileSystem(bad, NoFile("missing"))
    \/ \E bad \in BadFiles \cup PartialTables(SampleCategorical) :
           fs = FileSystem(NoFile("missing"), bad)
    \/ \E n \in 0..MaxRows :
           \E ids \in ProductIDs(n), stock \in [1..n -> StockVals],
              level \in [1..n -> LevelVals] :
               fs = FileSystem(NumericTable(ids, stock, level), NoFile("missing"))
    \/ \E n \in 0..MaxRows, col \in {"Category", "HazardClass", "Supplier"} :
           \E v \in [1..n -> ColumnVals(col)] :
               fs = FileSystem(NoFile("missing"), CategoricalTable(col, v))

InitSession ==
    /\ runMode = "session"
    /\ pc = "session"
    /\ exc = ""
    /\ stdin = NoLine
    /\ reads = 0
    /\ workflow = 0
    /\ out = <<>>
    /\ menus = 0
    /\ SessionFiles(files)
    /\ df = Unset
    /\ obj = "none"
    /\ res = NoResult

main_state == <<runMode, stdin, reads, workflow, menus, files>>

\* a loader call returns to the session, or its exception ends the session
Loaded(name, path, result) ==
    /\ res' = [op |-> name, val |-> path]
    /\ out' = result.out
    /\ IF result.raised
       THEN /\ pc' = "Crashed" /\ exc' = result.exc /\ df' = df
       ELSE /\ pc' = pc /\ exc' = exc /\ df' = result.ret
    /\ UNCHANGED <<main_state, obj>>

\* df = ui.load_data(path, data_type)
LoadData ==
    /\ pc = "session" /\ df = Unset
    /\ \E path \in Paths \ {PickleFile} : Loaded("load_data", path, load_data(files, path))

\* data = read_air_quality_data(path)
ReadAirQualityData ==
    /\ pc = "session" /\ df = Unset
    /\ \E path \in Paths \ {PickleFile} :
           Loaded("read_air_quality_data", path, read_air_quality_data(files, path))

\* a constructor call: the object exists only when __init__ returns
Constructed(class, result) ==
    /\ res' = [op |-> "init", val |-> result.msg]
    /\ obj' = IF result.raised THEN "rejected_" \o class ELSE class
    /\ exc' = result.exc
    /\ UNCHANGED <<main_state, pc, out, df>>

\* InventoryNumericProcessor(df)
NewNumericProcessor ==
    /\ pc = "session" /\ df.kind = "table" /\ obj = "none"
    /\ Constructed("numeric", InventoryNumeric_init(df))

\* InventoryCategoricalProcessor(data)
NewCategoricalProcessor ==
    /\ pc = "session" /\ df.kind = "table" /\ obj = "none"
    /\ Constructed("categorical", InventoryCategorical_init(df))

\* a method call on the constructed analyzer
Called(class, name, value) ==
    /\ pc = "session" /\ obj = class
    /\ res' = [op |-> name, val |-> value]
    /\ UNCHANGED <<main_state, pc, exc, out, df, obj>>

ItemsBelowReorder == Called("numeric", "items_below_reorder", items_below_reorder(df))
CalculateTotalStock == Called("numeric", "calculate_total_stock", calculate_total_stock(df))
CountByCategory == Called("categorical", "count_by_category", count_by_category(df))
CountBySupplier == Called("categorical", "count_by_supplier", count_by_supplier(df))
CountByHazardClass ==
    Called("categorical", "count_by_hazard_class", count_by_hazard_class(df))
GenerateCategoryReport ==
    Called("categorical", "generate_category_report", generate_category_report(df))

NextSession ==
    \/ LoadData
    \/ ReadAirQualityData
    \/ NewNumericProcessor
    \/ NewCategoricalProcessor
    \/ ItemsBelowReorder
    \/ CalculateTotalStock
    \/ CountByCategory
    \/ CountBySupplier
    \/ CountByHazardClass
    \/ GenerateCategoryReport

SpecSession == InitSession /\ [][NextSession]_vars

-----------------------------------------------------------------------------
(* Claims about the loader and the analyzers *)

Perms(n) == {p \in [1..n -> 1..n] : \A i, j \in 1..n : p[i] = p[j] => i = j}
Permuted(data, p) == Table(data.columns, [i \in DOMAIN data.rows |-> data.rows[p[i]]])

\* C4: the loader never raises to its caller: load_data and
\* read_air_quality_data return the whole table of a readable file and None
\* for every other file; nothing in between is returned.
C4_LoaderNeverRaises ==
    /\ pc # "Crashed"
    /\ res.op \in {"load_data", "read_air_quality_data"}
        => /\ exc = ""
           /\ df = IF files[res.val].kind = "table" THEN files[res.val] ELSE None

C4_Witness ==
    /\ res.op = "load_data" /\ files[res.val].kind = "malformed" /\ df = None

Validated(required, class) ==
    LET absent == Range(required) \ Range(df.columns)
    IN  /\ obj = "rejected_" \o class <=> absent # {}
        /\ obj = "rejected_" \o class
            => /\ exc = "ValueError" /\ res.op = "init"
               /\ Range(res.val) = absent /\ Len(res.val) = Cardinality(absent)

\* C5: a table lacking a required column is rejected by the constructor with
\* a ValueError that lists every missing column, and no analyzer method has
\* run on it; a table with all required columns is never rejected.
C5_SchemaValidation ==
    /\ obj \in {"numeric", "rejected_numeric"} => Validated(NumericRequired, "numeric")
    /\ obj \in {"categorical", "rejected_categorical"}
        => Validated(CategoricalRequired, "categorical")
    /\ obj \notin {"numeric", "categorical"}
        => res.op \in {"none", "load_data", "read_air_quality_data", "init"}

C5_Witness == obj = "rejected_categorical" /\ Len(res.val) >= 2

\* C7: items_below_reorder() returns exactly the rows with Stock <
\* ReorderLevel (rows with Stock = ReorderLevel excluded), each once and in
\* table order, with the table's columns; none when no row qualifies.
C7_ItemsBelowReorder ==
    res.op = "items_below_reorder" =>
        LET rows == df.rows
            below == res.val.rows
            Pos(row) == CHOOSE i \in DOMAIN rows : rows[i] = row
        IN  /\ res.val.columns = df.columns
            /\ \A i \in DOMAIN rows :
                   (rows[i].Stock # NaN /\ rows[i].Stock < rows[i].ReorderLevel)
                       <=> \E k \in DOMAIN below : below[k] = rows[i]
            /\ \A k \in DOMAIN below : below[k] \in Range(rows)
            /\ \A k, l \in DOMAIN below : k < l => Pos(below[k]) < Pos(below[l])

C7_Witness ==
    /\ res.op = "items_below_reorder"
    /\ Len(res.val.rows) = 2
    /\ \E i \in DOMAIN df.rows : df.rows[i].Stock = df.rows[i].ReorderLevel

\* the sum of the present values: each distinct value times its occurrences
RECURSIVE WeightedCount(_, _)
WeightedCount(values, distinct) ==
    IF distinct = {} THEN 0
    ELSE LET v == CHOOSE x \in distinct : TRUE
         IN  v * Cardinality({i \in DOMAIN values : values[i] = v})
               + WeightedCount(values, distinct \ {v})

\* C8: for a non-empty numeric table calculate_total_stock() is the sum of
\* the Stock values, and every permutation of the rows gives the same total.
C8_TotalStock ==
    (res.op = "calculate_total_stock" /\ df.rows # <<>>) =>
        /\ res.val = WeightedCount(Column(df, "Stock"), Range(Column(df, "Stock")) \ {NaN})
        /\ \A p \in Perms(Len(df.rows)) : calculate_total_stock(Permuted(df, p)) = res.val

C8_Witness ==
    /\ res.op = "calculate_total_stock" /\ Len(df.rows) >= 2 /\ res.val >= 3
    /\ df.rows[1].Stock # df.rows[2].Stock

CountOps ==
    [count_by_category |-> "Category", count_by_supplier |-> "Supplier",
     count_by_hazard_class |-> "HazardClass"]

Observed(col) == Range(Column(df, col)) \ {NaS}

RECURSIVE SumCounts(_)
SumCounts(m) == IF m = <<>> THEN 0 ELSE Head(m)[2] + SumCounts(Tail(m))

\* every observed value is a key with the number of rows holding it, and
\* every key is an observed value with a count of at least 1
CountsRows(m, col) ==
    /\ \A v \in Observed(col) :
           \E i \in DOMAIN m :
               /\ m[i][1] = v
               /\ m[i][2] = Cardinality({j \in DOMAIN df.rows : df.rows[j][col] = v})
    /\ \A i \in DOMAIN m : m[i][1] \in Observed(col) /\ m[i][2] >= 1
    /\ \A i, j \in DOMAIN m : m[i][1] = m[j][1] => i = j

\* C9 as claimed: each count maps every observed value to the number of
\* rows holding it, no key has count 0, and the counts sum to the number of
\* rows of the table.
C9_CountsSumToRows ==
    res.op \in DOMAIN CountOps =>
        /\ CountsRows(res.val, CountOps[res.op])
        /\ SumCounts(res.val) = Len(df.rows)

\* C9 amended: as claimed, but the counts sum to the number of rows whose
\* value in the column is not missing.
C9_CountsSumToPresentRows ==
    res.op \in DOMAIN CountOps =>
        /\ CountsRows(res.val, CountOps[res.op])
        /\ SumCounts(res.val)
             = Cardinality({j \in DOMAIN df.rows : df.rows[j][CountOps[res.op]] # NaS})

C9_Witness ==
    /\ res.op = "count_by_hazard_class"
    /\ Len(res.val) = 2
    /\ \E i \in DOMAIN res.val : res.val[i][2] = 2
    /\ Len(df.rows) = 3

Ascending(m) == \A i, j \in DOMAIN m : i < j => Rank(m[i][1]) < Rank(m[j][1])

\* C10: the keys of count_by_category(), count_by_supplier() and
\* count_by_hazard_class(), and of each mapping of the report, are in
\* ascending key order, and every permutation of the rows gives the same
\* mapping in the same order.
C10_SortedKeys ==
    /\ res.op \in DOMAIN CountOps =>
        /\ Ascending(res.val)
        /\ \A p \in Perms(Len(df.rows)) :
               groupby_size(Permuted(df, p), CountOps[res.op]) = res.val
    /\ res.op = "generate_category_report" =>
        /\ \A k \in DOMAIN res.val : Ascending(res.val[k][2])
        /\ \A p \in Perms(Len(df.rows)) :
               generate_category_report(Permuted(df, p)) = res.val

C10_Witness ==
    /\ res.op = "generate_category_report"
    /\ FirstSeen(Column(df, "Category")) = <<"Electronics", "Cleaning">>
    /\ res.val[1][2] = <<<<"Cleaning", 1>>, <<"Electronics", 2>>>>

-----------------------------------------------------------------------------
(* inventory_vector.py: vector algebra of InventoryVectorProcessor.         *)
(* Arrays are sequences of integers. A norm is kept by its square, a float  *)
(* quotient by its numerator and the square of its denominator; where the   *)
(* code compares or clips a float, the IEEE-754 double rounding decides.    *)

HasNaN(v) == \E i \in DOMAIN v : v[i] = NaN

\* np.dot over range(len - 1): the last component is left out
RECURSIVE np_dot_short(_, _)
np_dot_short(v1, v2) ==
    IF HasNaN(v1) \/ HasNaN(v2) THEN NaN
    ELSE IF Len(v1) <= 1 THEN 0
    ELSE Head(v1) * Head(v2) + np_dot_short(Tail(v1), Tail(v2))

\* np.dot(v1, v2) on two 1-D arrays of one length; a missing component
\* makes the result missing
RECURSIVE np_dot(_, _)
np_dot(v1, v2) ==
    IF HasNaN(v1) \/ HasNaN(v2) THEN NaN
    ELSE IF v1 = <<>> THEN 0
    ELSE Head(v1) * Head(v2) + np_dot(Tail(v1), Tail(v2))

\* float(np.dot(v1, v2))
dot_product(v1, v2) == np_dot(v1, v2)

\* np.linalg.norm(v) = sqrt(sum(abs(v)**2)), kept as the radicand
RECURSIVE linalg_norm(_)
linalg_norm(v) ==
    IF HasNaN(v) THEN NaN
    ELSE IF v = <<>> THEN 0
    ELSE LET n == Len(v) IN linalg_norm(SubSeq(v, 1, n - 1)) + v[n] * v[n]

Outcome(r) == [raised |-> FALSE, exc |-> "", msg |-> "", ret |-> r]
Failure(e, m) ==
    [raised |-> TRUE, exc |-> e, msg |-> m, ret |-> [scale |-> 0, dir |-> <<>>, sq |-> 0]]

RECURSIVE Sum(_)
Sum(v) == IF v = <<>> THEN 0 ELSE Head(v) + Sum(Tail(v))

\* unit_vector that takes the sum of the components for the norm
unit_vector_sum_norm(v) ==
    IF Sum(v) = 0
    THEN Failure("ValueError", "Zero vector")
    ELSE Outcome([scale |-> 1, dir |-> v, sq |-> linalg_norm(v)])

\* unit_vector: v / norm is scale * dir / sqrt(sq)
unit_vector(v) ==
    LET norm == linalg_norm(v)
    IN  IF norm = 0
        THEN Failure("ValueError", "Zero vector")
        ELSE Outcome([scale |-> 1, dir |-> v, sq |-> norm])

\* projection_vector: np.dot(v1, uv2) * uv2 is dot(v1, v2) * v2 / sq
projection_vector(v1, v2) ==
    LET uv2 == unit_vector(v2)
    IN  IF uv2.raised THEN uv2
        ELSE Outcome([scale |-> np_dot(v1, uv2.ret.dir), dir |-> uv2.ret.dir,
                      sq |-> uv2.ret.sq * uv2.ret.sq])

\* dot / (norm(v1) * norm(v2)) in double arithmetic:
\*   "nan"    0/0 or a missing operand
\*   "inside" strictly between -1 and 1, away from both
\*   "one"    exactly sign, "under" just inside sign, "over" just beyond sign
\* ProductBelow / ProductAbove: the pairs of radicands n1 <= n2 <= 40 with
\* n1 * n2 a square for which the double product sqrt(n1) * sqrt(n2) is
\* below, respectively above, the integer sqrt(n1 * n2); for every other such
\* pair the product is exact
Cosine(v1, v2) ==
    LET ProductBelow ==
            {<<3, 3>>, <<3, 12>>, <<6, 6>>, <<6, 24>>, <<12, 12>>, <<13, 13>>, <<18, 18>>,
             <<23, 23>>, <<24, 24>>, <<26, 26>>, <<29, 29>>, <<31, 31>>, <<37, 37>>,
             <<38, 38>>}
        ProductAbove ==
            {<<2, 2>>, <<2, 8>>, <<2, 32>>, <<5, 5>>, <<5, 20>>, <<7, 7>>, <<7, 28>>,
             <<8, 8>>, <<8, 32>>, <<10, 10>>, <<10, 40>>, <<15, 15>>, <<19, 19>>,
             <<20, 20>>, <<28, 28>>, <<32, 32>>, <<40, 40>>}
        dot == np_dot(v1, v2)
        n1 == linalg_norm(v1)
        n2 == linalg_norm(v2)
        ordered == IF n1 <= n2 THEN <<n1, n2>> ELSE <<n2, n1>>
        sign == IF dot > 0 THEN 1 ELSE IF dot < 0 THEN -1 ELSE 0
    IN  IF dot = NaN \/ n1 = NaN \/ n2 = NaN \/ n1 * n2 = 0
        THEN [kind |-> "nan", sign |-> 0, dot |-> 0, sq |-> 0]
        ELSE IF dot * dot < n1 * n2
        THEN [kind |-> "inside", sign |-> sign, dot |-> dot, sq |-> n1 * n2]
        ELSE [kind |-> CASE ordered \in ProductBelow -> "over"
                         [] ordered \in ProductAbove -> "under"
                         [] OTHER -> "one",
              sign |-> sign, dot |-> dot, sq |-> n1 * n2]

\* degrees(acos(c)): acos is not-a-number outside [-1, 1] (np.arccos) and
\* for not-a-number (math.acos as well)
\*   "exact" deg is 0 or 180; "near" within 1e-5 of deg but not deg;
\*   "between" strictly between 0 and 180, the angle of cosine dot / sqrt(sq)
degrees_acos(c) ==
    CASE c.kind \in {"nan", "over"} -> [kind |-> "nan", deg |-> 0, dot |-> 0, sq |-> 0]
      [] c.kind = "one" ->
            [kind |-> "exact", deg |-> IF c.sign > 0 THEN 0 ELSE 180, dot |-> 0, sq |-> 0]
      [] c.kind = "under" ->
            [kind |-> "near", deg |-> IF c.sign > 0 THEN 0 ELSE 180, dot |-> 0, sq |-> 0]
      [] OTHER -> [kind |-> "between", deg |-> 90, dot |-> c.dot, sq |-> c.sq]

\* InventoryVectorProcessor.angle_between; np.clip(c, -1, 1) lets
\* not-a-number pass through
angle_between(v1, v2) ==
    LET clip(c) == IF c.kind = "over" THEN [c EXCEPT !.kind = "one"] ELSE c
    IN  Outcome(degrees_acos(clip(Cosine(v1, v2))))

\* main.process_vector_data: np.degrees(vector_ops['angle'](v1, v2)), the
\* arc-cosine of the unclipped quotient
vector_ops_angle(v1, v2) == Outcome(degrees_acos(Cosine(v1, v2)))

-----------------------------------------------------------------------------
(* Sessions over the vector algebra: a pickled table of up to MaxDim rows   *)
(* is loaded and the operations are applied to its two numeric columns      *)

VectorTable(a, b, cat) ==
    Table(<<"VectorA", "VectorB", "Category">>,
          [i \in DOMAIN a |-> [VectorA |-> a[i], VectorB |-> b[i], Category |-> cat[i]]])

PickleSystem(table) == [p \in Paths |-> IF p = PickleFile THEN table ELSE NoFile("missing")]

\* VectorA is any vector within the bounds; VectorB is a vector of signs, or
\* VectorA or its negation; or the table lacks some of its columns
VectorFiles(fs) ==
    \/ fs = PickleSystem(NoFile("missing"))
    \/ \E n \in 0..MaxDim :
           \E a \in [1..n -> (0 - MaxVec)..MaxVec] :
               \E b \in [1..n -> {-1, 0, 1}] \cup {a, [i \in 1..n |-> 0 - a[i]]} :
                   fs = PickleSystem(VectorTable(a, b, [i \in 1..n |-> "X"]))
    \/ \E table \in PartialTables(SamplePickle) :
           table.columns # <<>> /\ fs = PickleSystem(table)

InitVector ==
    /\ runMode = "vector"
    /\ pc = "session"
    /\ exc = ""
    /\ stdin = NoLine
    /\ reads = 0
    /\ workflow = 0
    /\ out = <<>>
    /\ menus = 0
    /\ VectorFiles(files)
    /\ df = Unset
    /\ obj = "none"
    /\ res = NoResult

\* InventoryVector.from_pickle(path): pd.read_pickle is not in a try
FromPickle ==
    /\ pc = "session" /\ df = Unset
    /\ Loaded("from_pickle", PickleFile, read_csv(files, PickleFile))

\* one method call on the analyzer of the loaded table, then the run ends;
\* the methods are called on the two numeric columns
Applied(name, args, value) ==
    /\ pc = "session" /\ df.kind = "table"
    /\ {"VectorA", "VectorB"} \subseteq Range(df.columns)
    /\ res' = [op |-> name, val |-> [args |-> args, r |-> value]]
    /\ pc' = "done"
    /\ UNCHANGED <<main_state, exc, out, df, obj>>

\* v, v1 and v2 are columns of the table
UnitVector ==
    \E c \in {"VectorA", "VectorB"} :
        LET v == Column(df, c) IN Applied("unit_vector", <<v>>, unit_vector(v))
ProjectionVector ==
    \E c1, c2 \in {"VectorA", "VectorB"} :
        LET v1 == Column(df, c1)
            v2 == Column(df, c2)
        IN  Applied("projection_vector", <<v1, v2>>, projection_vector(v1, v2))
AngleBetween ==
    \E c1, c2 \in {"VectorA", "VectorB"} :
        LET v1 == Column(df, c1)
            v2 == Column(df, c2)
        IN  Applied("angle_between", <<v1, v2>>, angle_between(v1, v2))
DotProduct ==
    \E c1, c2 \in {"VectorA", "VectorB"} :
        LET v1 == Column(df, c1)
            v2 == Column(df, c2)
        IN  Applied("dot_product", <<v1, v2>>, Outcome(dot_product(v1, v2)))
\* the "Angle (deg)" entry of process_vector_data: v1, v2 are the first two
\* numeric columns
VectorOpsAngle ==
    Applied("vector_ops_angle", <<Column(df, "VectorA"), Column(df, "VectorB")>>,
            vector_ops_angle(Column(df, "VectorA"), Column(df, "VectorB")))

-----------------------------------------------------------------------------
(* Claims about the vector algebra *)

AllZero(v) == \A i \in DOMAIN v : v[i] = 0
Negated(v) == [i \in DOMAIN v |-> 0 - v[i]]
ZeroVectorError(r) == r.raised /\ r.exc = "ValueError" /\ r.msg = "Zero vector"

\* C13: unit_vector(v) fails with the zero-vector error exactly when every
\* component of v is 0, projection_vector(v1, v2) exactly when v2 is the
\* zero vector; every other input gives a result along the vector, and a
\* zero v1 is not an error.
C13_ZeroVectorError ==
    /\ res.op = "unit_vector" =>
        LET v == res.val.args[1]
            r == res.val.r
        IN  /\ r.raised <=> AllZero(v)
            /\ r.raised => ZeroVectorError(r)
            /\ ~r.raised => r.ret.dir = v /\ r.ret.sq > 0
    /\ res.op = "projection_vector" =>
        LET v2 == res.val.args[2]
            r == res.val.r
        IN  /\ r.raised <=> AllZero(v2)
            /\ r.raised => ZeroVectorError(r)
            /\ ~r.raised => r.ret.dir = v2 /\ r.ret.sq > 0

C13_Witness ==
    /\ res.op = "projection_vector"
    /\ Len(res.val.args[1]) >= 2
    /\ AllZero(res.val.args[1]) /\ ~AllZero(res.val.args[2])
    /\ ~res.val.r.raised /\ res.val.r.ret.scale = 0

\* C14: angle_between(v1, v2) fails with the zero-vector error whenever v1
\* or v2 has norm 0; it returns no angle, numeric or not-a-number.
C14_AngleZeroVectorError ==
    (res.op = "angle_between" /\ (AllZero(res.val.args[1]) \/ AllZero(res.val.args[2])))
        => ZeroVectorError(res.val.r)

\* C15: for nonzero v, angle_between(v, v) is 0 and angle_between(v, -v) is
\* 180; for nonzero v1, v2 the result is an angle in [0, 180]; the angle of
\* the vector workflow of main is the value of angle_between on its inputs.
C15_AngleValues ==
    /\ (res.op = "angle_between" /\ ~AllZero(res.val.args[1]) /\ ~AllZero(res.val.args[2])) =>
        LET v1 == res.val.args[1]
            v2 == res.val.args[2]
            angle == res.val.r.ret
        IN  /\ ~res.val.r.raised /\ angle.kind # "nan"
            /\ v2 = v1 => angle.kind = "exact" /\ angle.deg = 0
            /\ v2 = Negated(v1) => angle.kind = "exact" /\ angle.deg = 180
    /\ res.op = "vector_ops_angle" =>
        res.val.r = angle_between(res.val.args[1], res.val.args[2])

\* the sum of f over the index set S
RECURSIVE SumOver(_, _)
SumOver(f, S) ==
    IF S = {} THEN 0
    ELSE LET i == CHOOSE j \in S : TRUE IN f[i] + SumOver(f, S \ {i})

\* C16: dot_product(v1, v2) is the sum over i of v1[i] * v2[i], and
\* dot_product(v, v) is the square of the Euclidean norm of v.
C16_DotProduct ==
    res.op = "dot_product" =>
        LET v1 == res.val.args[1]
            v2 == res.val.args[2]
        IN  /\ res.val.r.ret = SumOver([i \in DOMAIN v1 |-> v1[i] * v2[i]], DOMAIN v1)
            /\ v1 = v2 => res.val.r.ret = linalg_norm(v1)

C16_Witness ==
    /\ res.op = "dot_product"
    /\ res.val.args[1] = res.val.args[2]
    /\ res.val.r.ret >= 2

-----------------------------------------------------------------------------
(* inventory_vector.py: probabilities of InventoryVector and the same       *)
(* computation inline in inventory_numeric.py. A Series is the mapping from *)
(* its index keys to its values, a float quotient the pair num / den.       *)

Ratio(n, d) == [num |-> n, den |-> d]

\* rows whose values in all of cols are present (groupby drops the others)
PresentRows(data, cols) == {i \in DOMAIN data.rows : \A c \in cols : data.rows[i][c] # NaN}
RowsWith(data, col, value) == {i \in DOMAIN data.rows : data.rows[i][col] = value}

\* joint_counts that groups by c1 alone
joint_counts_marginal(data, c1, c2) ==
    LET keys == {<<data.rows[i][c1], data.rows[i][c2]>> : i \in PresentRows(data, {c1, c2})}
    IN  [k \in keys |-> Cardinality(RowsWith(data, c1, k[1]))]

\* InventoryVector.joint_counts: self._data.groupby([c1, c2]).size()
joint_counts(data, c1, c2) ==
    LET keys == {<<data.rows[i][c1], data.rows[i][c2]>> : i \in PresentRows(data, {c1, c2})}
    IN  [k \in keys |-> Cardinality(RowsWith(data, c1, k[1]) \cap RowsWith(data, c2, k[2]))]

\* InventoryVector.joint_probabilities: joint_counts(c1, c2) / len(self._data)
joint_probabilities(data, c1, c2) ==
    LET jc == joint_counts(data, c1, c2)
    IN  [k \in DOMAIN jc |-> Ratio(jc[k], Len(data.rows))]

\* conditional_probability normalised over the whole table
conditional_probability_joint(data, target, given) ==
    LET keys == {<<data.rows[i][given], data.rows[i][target]>> :
                    i \in PresentRows(data, {given, target})}
    IN  [k \in keys |->
            Ratio(Cardinality(RowsWith(data, given, k[1]) \cap RowsWith(data, target, k[2])),
                  Cardinality(PresentRows(data, {given, target})))]

\* InventoryVector.conditional_probability:
\* self._data.groupby(given)[target].value_counts(normalize=True); the key
\* is (given, target), value_counts drops the missing targets of a group
\* and divides by the number of the others
conditional_probability(data, target, given) ==
    LET keys == {<<data.rows[i][given], data.rows[i][target]>> :
                    i \in PresentRows(data, {given, target})}
    IN  [k \in keys |->
            Ratio(Cardinality(RowsWith(data, given, k[1]) \cap RowsWith(data, target, k[2])),
                  Cardinality(RowsWith(data, given, k[1]) \cap PresentRows(data, {target})))]

\* InventoryNumericProcessor.process_and_display, lines 122-146: the joint
\* counts, cnt / total and cnt / marg[b] printed for every (a, b) of jc
numeric_probabilities(data, col1, col2) ==
    LET total == Len(data.rows)
        jc == joint_counts(data, col1, col2)
        marg == [b \in {data.rows[i][col2] : i \in PresentRows(data, {col2})} |->
                    Cardinality(RowsWith(data, col2, b))]
    IN  [counts |-> jc,
         joint |-> [k \in DOMAIN jc |-> Ratio(jc[k], total)],
         cond |-> [k \in DOMAIN jc |-> Ratio(jc[k], marg[k[2]])]]

-----------------------------------------------------------------------------
(* inventory_vector.py: combinations and permutations *)

PrependAll(x, tuples) == [k \in DOMAIN tuples |-> <<x>> \o tuples[k]]

\* itertools.combinations(vals, r): by position, in lexicographic order
RECURSIVE combinations(_, _)
combinations(vals, r) ==
    IF r = 0 THEN <<<<>>>>
    ELSE IF Len(vals) < r THEN <<>>
    ELSE PrependAll(Head(vals), combinations(Tail(vals), r - 1))
            \o combinations(Tail(vals), r)

\* itertools.permutations(vals, r): by position, in lexicographic order
RECURSIVE permutations(_, _)
RECURSIVE PermutationsFrom(_, _, _)
PermutationsFrom(vals, r, i) ==
    IF i > Len(vals) THEN <<>>
    ELSE PrependAll(vals[i],
                    permutations(SubSeq(vals, 1, i - 1) \o SubSeq(vals, i + 1, Len(vals)),
                                 r - 1))
            \o PermutationsFrom(vals, r, i + 1)
permutations(vals, r) ==
    IF r = 0 THEN <<<<>>>>
    ELSE IF Len(vals) < r THEN <<>>
    ELSE PermutationsFrom(vals, r, 1)

\* self._data[col].dropna().tolist(): the duplicates are kept
DropNa(values) == SelectSeq(values, LAMBDA x : x # NaS)
generate_combinations_all_values(data, col, r) == combinations(DropNa(Column(data, col)), r)

\* generate_combinations / generate_permutations:
\* vals = self._data[col].dropna().unique().tolist()
generate_combinations(data, col, r) == combinations(FirstSeen(Column(data, col)), r)
generate_permutations(data, col, r) == permutations(FirstSeen(Column(data, col)), r)

-----------------------------------------------------------------------------
(* Sessions over the probabilities and the enumerations *)

\* the two numeric columns vary, or the string column does
ProbabilityFiles(fs) ==
    \/ \E n \in 0..MaxDim :
           \E a, b \in [1..n -> {0, MaxVec, NaN}] :
               fs = PickleSystem(VectorTable(a, b, [i \in 1..n |-> "X"]))
    \/ \E n \in 0..MaxDim :
           \E cat \in [1..n -> {"X", "Y", "Z", NaS}] :
               fs = PickleSystem(VectorTable([i \in 1..n |-> i], [i \in 1..n |-> 3 + i], cat))

InitProbability ==
    /\ runMode = "probability"
    /\ pc = "session"
    /\ exc = ""
    /\ stdin = NoLine
    /\ reads = 0
    /\ workflow = 0
    /\ out = <<>>
    /\ menus = 0
    /\ ProbabilityFiles(files)
    /\ df = Unset
    /\ obj = "none"
    /\ res = NoResult

\* c is the pair of columns, either way round
JointCounts ==
    \E c \in {<<"VectorA", "VectorB">>, <<"VectorB", "VectorA">>} : Applied("joint_counts", c, joint_counts(df, c[1], c[2]))
JointProbabilities ==
    \E c \in {<<"VectorA", "VectorB">>, <<"VectorB", "VectorA">>} :
        Applied("joint_probabilities", c, joint_probabilities(df, c[1], c[2]))
\* args are (target, given)
ConditionalProbability ==
    \E c \in {<<"VectorA", "VectorB">>, <<"VectorB", "VectorA">>} :
        Applied("conditional_probability", c, conditional_probability(df, c[1], c[2]))
NumericProbabilities ==
    \E c \in {<<"VectorA", "VectorB">>, <<"VectorB", "VectorA">>} :
        Applied("numeric_probabilities", c, numeric_probabilities(df, c[1], c[2]))
GenerateCombinations ==
    \E r \in 0..MaxR :
        Applied("generate_combinations", <<"Category", r>>,
                generate_combinations(df, "Category", r))
GeneratePermutations ==
    \E r \in 0..MaxR :
        Applied("generate_permutations", <<"Category", r>>,
                generate_permutations(df, "Category", r))

NextProbability ==
    \/ FromPickle
    \/ JointCounts
    \/ JointProbabilities
    \/ ConditionalProbability
    \/ NumericProbabilities
    \/ GenerateCombinations
    \/ GeneratePermutations

SpecProbability == InitProbability /\ [][NextProbability]_vars

-----------------------------------------------------------------------------
(* Claims about the probabilities and the enumerations *)

SumValues(m) == SumOver(m, DOMAIN m)
SumNums(m, keys) == SumOver([k \in keys |-> m[k].num], keys)
RatioEq(p, q) == p.num * q.den = q.num * p.den

\* every observed pair is a key with the number of rows holding it
ObservedPairs(c1, c2) ==
    {<<df.rows[i][c1], df.rows[i][c2]>> : i \in PresentRows(df, {c1, c2})}
PairRows(c1, c2, k) ==
    Cardinality({i \in DOMAIN df.rows : df.rows[i][c1] = k[1] /\ df.rows[i][c2] = k[2]})
CountsPairs(m, c1, c2) ==
    /\ DOMAIN m = ObservedPairs(c1, c2)
    /\ \A k \in DOMAIN m : m[k] = PairRows(c1, c2, k) /\ m[k] >= 1

\* C11 as claimed: the joint counts are the counts of the observed pairs and
\* sum to the number of rows they are divided by, so the joint
\* probabilities sum to 1, for every table.
C11_JointSumToOne ==
    /\ res.op = "joint_counts" =>
        /\ CountsPairs(res.val.r, res.val.args[1], res.val.args[2])
        /\ SumValues(res.val.r) = Len(df.rows)
    /\ res.op = "joint_probabilities" =>
        /\ \A k \in DOMAIN res.val.r : res.val.r[k].den = Len(df.rows)
        /\ SumNums(res.val.r, DOMAIN res.val.r) = Len(df.rows)
    /\ res.op = "numeric_probabilities" =>
        /\ \A k \in DOMAIN res.val.r.joint : res.val.r.joint[k].den = Len(df.rows)
        /\ SumNums(res.val.r.joint, DOMAIN res.val.r.joint) = Len(df.rows)

\* C11 amended: the joint counts sum to the number of rows in which both A
\* and B are present, every probability is its count over the number of all
\* rows, and the probabilities sum to 1 exactly when the table has a row and
\* no row lacks A or B.
C11_JointSumToPresentRows ==
    /\ res.op = "joint_counts" =>
        /\ CountsPairs(res.val.r, res.val.args[1], res.val.args[2])
        /\ SumValues(res.val.r)
             = Cardinality(PresentRows(df, {res.val.args[1], res.val.args[2]}))
    /\ res.op = "joint_probabilities" =>
        LET c1 == res.val.args[1]
            c2 == res.val.args[2]
            p == res.val.r
        IN  /\ DOMAIN p = ObservedPairs(c1, c2)
            /\ \A k \in DOMAIN p : p[k] = Ratio(PairRows(c1, c2, k), Len(df.rows))
            /\ SumNums(p, DOMAIN p) = Cardinality(PresentRows(df, {c1, c2}))
            /\ (df.rows # <<>> /\ SumNums(p, DOMAIN p) = Len(df.rows))
                <=> (df.rows # <<>> /\ \A i \in DOMAIN df.rows :
                        df.rows[i][c1] # NaN /\ df.rows[i][c2] # NaN)
    /\ res.op = "numeric_probabilities" =>
        LET c1 == res.val.args[1]
            c2 == res.val.args[2]
            p == res.val.r.joint
        IN  /\ CountsPairs(res.val.r.counts, c1, c2)
            /\ DOMAIN p = ObservedPairs(c1, c2)
            /\ \A k \in DOMAIN p : p[k] = Ratio(PairRows(c1, c2, k), Len(df.rows))
            /\ SumNums(p, DOMAIN p) = Cardinality(PresentRows(df, {c1, c2}))

C11_Witness ==
    /\ res.op = "joint_probabilities"
    /\ Len(df.rows) = 3
    /\ \E k \in DOMAIN res.val.r : res.val.r[k] = Ratio(2, 3)
    /\ \E i \in DOMAIN df.rows : df.rows[i].VectorA = NaN

GivenRows(given, g) == {i \in DOMAIN df.rows : df.rows[i][given] = g}
TargetsOf(m, g) == {k \in DOMAIN m : k[1] = g}

\* C12 as claimed: conditional_probability(target, given) maps each observed
\* (given, target) to the joint count over the marginal count of the given
\* value, the probabilities of every given value sum to 1, and cnt / marg[b]
\* of the numeric workflow is the same value for the same pair.
C12_ConditionalIsJointOverMarginal ==
    res.op = "conditional_probability" =>
        LET target == res.val.args[1]
            given == res.val.args[2]
            p == res.val.r
            inline == numeric_probabilities(df, target, given).cond
        IN  /\ DOMAIN p = ObservedPairs(given, target)
            /\ \A k \in DOMAIN p :
                /\ RatioEq(p[k], Ratio(PairRows(given, target, k),
                                       Cardinality(GivenRows(given, k[1]))))
                /\ SumNums(p, TargetsOf(p, k[1])) = p[k].den
                /\ <<k[2], k[1]>> \in DOMAIN inline
                /\ RatioEq(inline[<<k[2], k[1]>>], p[k])

\* C12 amended: the divisor is the number of rows with the given value whose
\* target is present; the probabilities of every given value sum to 1; and
\* cnt / marg[b] is the same value for the same pair exactly when no row
\* with that given value lacks the target.
C12_ConditionalOverPresentTargets ==
    res.op = "conditional_probability" =>
        LET target == res.val.args[1]
            given == res.val.args[2]
            p == res.val.r
            inline == numeric_probabilities(df, target, given).cond
        IN  /\ DOMAIN p = ObservedPairs(given, target)
            /\ \A k \in DOMAIN p :
                /\ RatioEq(p[k],
                           Ratio(PairRows(given, target, k),
                                 Cardinality({i \in GivenRows(given, k[1]) :
                                                 df.rows[i][target] # NaN})))
                /\ p[k].den >= 1
                /\ SumNums(p, TargetsOf(p, k[1])) = p[k].den
                /\ <<k[2], k[1]>> \in DOMAIN inline
                /\ RatioEq(inline[<<k[2], k[1]>>], p[k])
                    <=> \A i \in GivenRows(given, k[1]) : df.rows[i][target] # NaN

C12_Witness ==
    /\ res.op = "conditional_probability"
    /\ Len(df.rows) = 3
    /\ \E k \in DOMAIN res.val.r :
           /\ res.val.r[k] = Ratio(1, 2)
           /\ Cardinality(GivenRows(res.val.args[2], k[1])) = 3

RECURSIVE Choose(_, _)
Choose(n, r) ==
    IF r = 0 THEN 1 ELSE IF n = 0 THEN 0 ELSE Choose(n - 1, r - 1) + Choose(n - 1, r)
RECURSIVE Falling(_, _)
Falling(n, r) == IF r = 0 THEN 1 ELSE n * Falling(n - 1, r - 1)

\* position of the first row holding the value
FirstRow(col, x) ==
    CHOOSE i \in DOMAIN df.rows :
        df.rows[i][col] = x /\ \A j \in 1..(i - 1) : df.rows[j][col] # x
LexLess(col, t, u) ==
    \E k \in DOMAIN t :
        /\ \A j \in 1..(k - 1) : t[j] = u[j]
        /\ FirstRow(col, t[k]) < FirstRow(col, u[k])
Enumeration(tuples, col, r) ==
    /\ \A k \in DOMAIN tuples :
        /\ Len(tuples[k]) = r
        /\ \A i \in 1..r : tuples[k][i] # NaS /\ tuples[k][i] \in Range(Column(df, col))
        /\ \A i, j \in 1..r : tuples[k][i] = tuples[k][j] => i = j
    /\ \A k, l \in DOMAIN tuples : k < l => LexLess(col, tuples[k], tuples[l])

\* C17: generate_combinations(col, r) and generate_permutations(col, r) are
\* the r-tuples over the distinct non-missing values of the column, in
\* lexicographic order of first appearance: no tuple twice, no value twice
\* in a tuple, C(n, r) combinations (each in order of first appearance) and
\* n!/(n-r)! permutations of n distinct values, none when r > n.
C17_Enumerations ==
    res.op \in {"generate_combinations", "generate_permutations"} =>
        LET col == res.val.args[1]
            r == res.val.args[2]
            tuples == res.val.r
            n == Cardinality(Range(Column(df, col)) \ {NaS})
        IN  /\ Enumeration(tuples, col, r)
            /\ r > n => tuples = <<>>
            /\ res.op = "generate_combinations" =>
                /\ Len(tuples) = Choose(n, r)
                /\ \A k \in DOMAIN tuples : \A i, j \in 1..r :
                       i < j => FirstRow(col, tuples[k][i]) < FirstRow(col, tuples[k][j])
            /\ res.op = "generate_permutations" => Len(tuples) = Falling(n, r)

C17_Witness ==
    /\ res.op = "generate_permutations"
    /\ res.val.args[2] = 2
    /\ Column(df, "Category") = <<"Y", "X", "Y">>
    /\ res.val.r = <<<<"Y", "X">>, <<"X", "Y">>>>

-----------------------------------------------------------------------------
(* visualization.py, inventory_numeric.py: the charts and the CSV export *)

\* plt.savefig(path) / DataFrame.to_csv(path): the file is created or replaced
Written(fs, path, content) ==
    [p \in DOMAIN fs \cup {path} |-> IF p = path THEN content ELSE fs[p]]

\* str(n) of a non-negative integer
RECURSIVE IntDigits(_)
IntDigits(n) ==
    LET digit(d) == CHOOSE c \in Digits : DigitVal(c) = d
    IN  IF n < 10 THEN <<digit(n)>> ELSE IntDigits(n \div 10) \o <<digit(n % 10)>>

\* DataFrame.to_csv(path, index=False): the header and one line per row; a
\* missing value is the empty field, a float of integral value ends in ".0";
\* floats is the set of float64 columns of the frame
to_csv(data, floats) ==
    LET field(c, v) ==
            IF c \in NumericDtype
            THEN IF v = NaN THEN <<>>
                 ELSE IF c \in floats THEN IntDigits(v) \o <<".", "0">>
                 ELSE IntDigits(v)
            ELSE IF v = NaS THEN <<>> ELSE <<v>>
    IN  [kind |-> "text", columns |-> data.columns,
         rows |-> [i \in DOMAIN data.rows |->
                      [c \in Range(data.columns) |-> field(c, data.rows[i][c])]]]

\* the charts of a try block in order: each saves its file, the first raise
\* ends the block
RECURSIVE SaveUntilRaise(_, _)
SaveUntilRaise(fs, charts) ==
    IF charts = <<>> \/ Head(charts).raised THEN fs
    ELSE SaveUntilRaise(Written(fs, Head(charts).ret, NoFile("image")), Tail(charts))

\* the files after InventoryNumericProcessor.process_and_display, lines
\* 150-163: four charts, then below.to_csv(out, index=False)
numeric_exports(fs, data, answer) ==
    LET charts == <<plot_histogram("Stock"), plot_line("ProductID", "Stock"),
                    plot_histogram("Price"), plot_line("ProductID", "Price")>>
        out_dir == ConfigAttr("output_dir")
        saved == SaveUntilRaise(fs, charts)
        \* the numeric columns that hold a missing value have dtype float64
        floats == {c \in Range(data.columns) \cap NumericDtype :
                      \E i \in DOMAIN data.rows : data.rows[i][c] = NaN}
    IN  IF ~answer THEN fs
        ELSE IF (\E i \in DOMAIN charts : charts[i].raised) \/ out_dir.raised THEN saved
        ELSE Written(saved, out_dir.ret \o "below_reorder.csv",
                     to_csv(items_below_reorder(data), floats))

\* DataFrame.sort_values(col): a new frame, rows in ascending order of col
RECURSIVE SortRows(_, _)
SortRows(rows, col) ==
    IF rows = <<>> THEN <<>>
    ELSE LET m == CHOOSE i \in DOMAIN rows :
                      \A j \in DOMAIN rows :
                          rows[i][col] < rows[j][col] \/ (rows[i][col] = rows[j][col] /\ i <= j)
         IN  <<rows[m]>> \o SortRows(SubSeq(rows, 1, m - 1) \o SubSeq(rows, m + 1, Len(rows)), col)
sort_values(data, col) == Table(data.columns, SortRows(data.rows, col))

\* a chart call: its outcome and the frame its caller holds afterwards
Charted(outcome, data) ==
    [raised |-> outcome.raised, exc |-> outcome.exc, ret |-> outcome.ret, data |-> data]

\* plot_stock_levels with numeric_data.sort_values('ProductID', inplace=True)
plot_stock_levels_inplace(numeric_data) ==
    LET sorted_data == sort_values(numeric_data, "ProductID")
    IN  IF \E i \in DOMAIN sorted_data.rows : sorted_data.rows[i].Stock = NaN
        THEN Charted(Raise("ValueError", <<>>), sorted_data)
        ELSE IF sorted_data.rows = <<>>
        THEN Charted(Raise("ValueError", <<>>), sorted_data)
        ELSE Charted(Return(ConfigItem("output_dir").ret \o "stock_levels.png", <<>>),
                     sorted_data)

\* visualization.plot_stock_levels: int(row['Stock']) of a missing value and
\* max() of no value raise ValueError before the file is saved
plot_stock_levels(numeric_data) ==
    LET sorted_data == sort_values(numeric_data, "ProductID")
    IN  IF \E i \in DOMAIN sorted_data.rows : sorted_data.rows[i].Stock = NaN
        THEN Charted(Raise("ValueError", <<>>), numeric_data)
        ELSE IF sorted_data.rows = <<>>
        THEN Charted(Raise("ValueError", <<>>), numeric_data)
        ELSE Charted(Return(ConfigItem("output_dir").ret \o "stock_levels.png", <<>>),
                     numeric_data)

\* visualization.save_plot(filename) as visualization.py calls it:
\* os.path.join(CONFIG['output_dir'], filename)
\* plot_hazard_distribution / plot_category_distribution end in it
plot_hazard_distribution(categorical_data) ==
    Charted(save_plot(<<"hazard_distribution.png">>), categorical_data)
plot_category_distribution(categorical_data) ==
    Charted(save_plot(<<"category_distribution.png">>), categorical_data)

-----------------------------------------------------------------------------
(* Sessions over the charts: a CSV file is loaded, the analyzer is built    *)
(* and its operations and charts are called in any order                    *)

\* numeric tables of up to MaxRows rows, categorical tables with a hazard
\* class and a category in every row
ChartFiles(fs) ==
    \/ \E n \in 0..MaxRows :
           \E ids \in ProductIDs(n), stock \in [1..n -> StockVals] :
               fs = FileSystem(NumericTable(ids, stock, [i \in 1..n |-> 1]), NoFile("missing"))
    \/ \E n \in 1..MaxRows :
           \E v \in [1..n -> {"A", "B"}] :
               fs = FileSystem(NoFile("missing"), CategoricalTable("HazardClass", v))

InitCharts ==
    /\ runMode = "charts"
    /\ pc = "session"
    /\ exc = ""
    /\ stdin = NoLine
    /\ reads = 0
    /\ workflow = 0
    /\ out = <<>>
    /\ menus = 0
    /\ ChartFiles(files)
    /\ df = Unset
    /\ obj = "none"
    /\ res = NoResult

\* a chart call on the analyzer's table: the file is saved unless it raised
Plotted(class, name, args, result) ==
    /\ pc = "session" /\ obj = class
    /\ res' = [op |-> name, val |-> [args |-> args, r |-> [raised |-> result.raised,
                                                             exc |-> result.exc,
                                                             ret |-> result.ret]]]
    /\ files' = IF result.raised THEN files ELSE Written(files, result.ret, NoFile("image"))
    /\ df' = result.data
    /\ UNCHANGED <<runMode, stdin, reads, workflow, menus, pc, exc, out, obj>>

PlotHistogram ==
    \E col \in {"Stock", "Price"} :
        Plotted("numeric", "plot_histogram", <<col>>, Charted(plot_histogram(col), df))
PlotLine ==
    \E y_col \in {"Stock", "Price"} :
        Plotted("numeric", "plot_line", <<"ProductID", y_col>>,
                Charted(plot_line("ProductID", y_col), df))
PlotStockLevels ==
    Plotted("numeric", "plot_stock_levels", <<>>, plot_stock_levels(df))
PlotHazardDistribution ==
    Plotted("categorical", "plot_hazard_distribution", <<>>, plot_hazard_distribution(df))
PlotCategoryDistribution ==
    Plotted("categorical", "plot_category_distribution", <<>>, plot_category_distribution(df))

\* InventoryNumericProcessor(df).process_and_display(); answer is the reply
\* to ui.get_visualization_choice()
ProcessAndDisplay ==
    /\ pc = "session" /\ obj = "numeric"
    /\ \E answer \in BOOLEAN :
        LET shown == numeric_process_and_display(df, answer)
        IN  /\ res' = [op |-> "process_and_display",
                       val |-> [args |-> <<answer>>, r |-> shown.ret]]
            /\ out' = shown.out
            /\ files' = numeric_exports(files, df, answer)
    /\ UNCHANGED <<runMode, stdin, reads, workflow, menus, pc, exc, df, obj>>

NextCharts ==
    \/ LoadData
    \/ NewNumericProcessor
    \/ NewCategoricalProcessor
    \/ ItemsBelowReorder
    \/ CalculateTotalStock
    \/ CountByHazardClass
    \/ GenerateCategoryReport
    \/ PlotHistogram
    \/ PlotLine
    \/ PlotStockLevels
    \/ PlotHazardDistribution
    \/ PlotCategoryDistribution
    \/ ProcessAndDisplay

SpecCharts == InitCharts /\ [][NextCharts]_vars

-----------------------------------------------------------------------------
(* Claims about the charts, the export and the table *)

BelowReorderCsv == CONFIG.output_dir \o "below_reorder.csv"

\* C18: after the numeric workflow has exported items_below_reorder() to CSV
\* (the user answered yes), loading that file gives the same rows in the
\* same order with the same columns and values, also when there is no row.
C18_ExportRoundTrip ==
    (res.op = "process_and_display" /\ res.val.args[1]) =>
        LET back == load_data(files, BelowReorderCsv).ret
            below == items_below_reorder(df)
        IN  /\ back.kind = "table"
            /\ back.columns = below.columns
            /\ back.rows = below.rows

ChartPath(op, args) ==
    CONFIG.output_dir \o
        CASE op = "plot_histogram" -> args[1] \o "_histogram.png"
          [] op = "plot_line" -> args[1] \o "_" \o args[2] \o "_line.png"
          [] op = "plot_stock_levels" -> "stock_levels.png"
          [] op = "plot_hazard_distribution" -> "hazard_distribution.png"
          [] op = "plot_category_distribution" -> "category_distribution.png"

ChartOps ==
    {"plot_histogram", "plot_line", "plot_stock_levels", "plot_hazard_distribution",
     "plot_category_distribution"}

\* C19: every call of a chart operation returns the path fixed by its
\* naming convention in the output directory and leaves exactly that image
\* file written: a new file on the first call, the same file replaced on a
\* later one, and no other file touched.
C19_ChartWritesOneFile ==
    [][res'.op \in ChartOps =>
          LET path == ChartPath(res'.op, res'.val.args)
          IN  /\ ~res'.val.r.raised
              /\ res'.val.r.ret = path
              /\ DOMAIN files' = DOMAIN files \cup {path}
              /\ files'[path] = NoFile("image")
              /\ \A p \in DOMAIN files \ {path} : files'[p] = files[p]]_vars

\* C20: once loaded, the table the analyzer holds is never changed by an
\* operation (statistics, filter, count, report or chart, the sorting of
\* plot_stock_levels included), nor is an input file.
C20_TableReadOnly ==
    [][df.kind = "table" =>
          /\ df' = df
          /\ \A p \in Paths : files'[p] = files[p]]_vars

C20_Witness ==
    /\ res.op = "plot_stock_levels"
    /\ ~res.val.r.raised
    /\ (CONFIG.output_dir \o "stock_levels.png") \in DOMAIN files
    /\ Len(df.rows) >= 2
    /\ df.rows[1].ProductID > df.rows[2].ProductID

-----------------------------------------------------------------------------
(* Claims about the workflows of main.py *)

FailedLine(operation, result) ==
    IF result.ret THEN <<>> ELSE <<Status(operation, FALSE)>>

\* C21: run_all_processes runs the numeric workflow first and then the
\* vector workflow, the vector workflow whether or not the numeric one
\* failed; a FAILED status line is shown for exactly the workflows that
\* returned failure, and the completion banner is shown last in every case.
C21_RunAllAggregates ==
    [][(pc = "Running" /\ workflow = 3) =>
          \E answer1 \in BOOLEAN :
              LET ok_num == process_numeric_data(TRUE, files, answer1, FALSE)
                  ok_vec == process_vector_data(files)
              IN  /\ ~ok_num.raised /\ ~ok_vec.raised
                  /\ pc' = "MainMenu"
                  /\ out' = <<"RUNNING COMPLETE INVENTORY ANALYSIS">>
                            \o ok_num.out \o ok_vec.out
                            \o FailedLine("Numeric workflow", ok_num)
                            \o FailedLine("Vector workflow", ok_vec)
                            \o <<"PROCESSING COMPLETE">>]_vars

\* C22: a workflow's result reflects only its load step:
\* process_numeric_data returns False exactly when the CSV load failed,
\* process_vector_data returns False exactly when the pickle load failed, no
\* analysis step runs after a failed load, and a failure while saving the
\* visualizations is reported as FAILED while the workflow still returns True.
C22_ResultReflectsLoad ==
    /\ (pc = "Running" /\ workflow = 1) =>
        \A answer1, answer2 \in BOOLEAN :
            LET r == process_numeric_data(FALSE, files, answer1, answer2)
                load == read_csv(files, CONFIG.inventory_numeric_csv)
                viz == {Status("Numeric visualizations", ok) : ok \in BOOLEAN}
            IN  /\ ~r.raised
                /\ r.ret = FALSE <=> load.raised
                /\ load.raised => r.out = <<"Error loading data">>
                /\ (~load.raised /\ answer2) => \E line \in viz : line \in Range(r.out)
    /\ (pc = "Running" /\ workflow = 2) =>
        LET r == process_vector_data(files)
            load == read_csv(files, PickleFile)
        IN  /\ ~r.raised
            /\ r.ret = FALSE <=> load.raised
            /\ load.raised => Len(r.out) = 1

-----------------------------------------------------------------------------
(* Claims about the batches of charts and the exports *)

\* the charts of the try block of process_and_display, in the listed order
AdvancedCharts ==
    <<CONFIG.output_dir \o "Stock_histogram.png",
      CONFIG.output_dir \o "ProductID_Stock_line.png",
      CONFIG.output_dir \o "Price_histogram.png",
      CONFIG.output_dir \o "ProductID_Price_line.png">>

AdvancedStatus(ok) == Status("Numeric advanced visualizations", ok)

\* C23: in a batch of visualizations the charts are attempted in their
\* listed order; the first that fails stops the batch, the later ones are
\* not attempted, the files already saved stay saved, and exactly one status
\* line is shown: SUCCESS only if every chart was saved, FAILED otherwise.
C23_BatchStopsAtFirstFailure ==
    [][(res'.op = "process_and_display" /\ res'.val.args[1]) =>
          \E k \in 0..Len(AdvancedCharts) :
              /\ \A i \in 1..k :
                    /\ AdvancedCharts[i] \in DOMAIN files'
                    /\ files'[AdvancedCharts[i]] = NoFile("image")
              /\ \A i \in (k + 1)..Len(AdvancedCharts) :
                    /\ AdvancedCharts[i] \in DOMAIN files' <=> AdvancedCharts[i] \in DOMAIN files
                    /\ AdvancedCharts[i] \in DOMAIN files
                           => files'[AdvancedCharts[i]] = files[AdvancedCharts[i]]
              /\ \A p \in DOMAIN files : p \in DOMAIN files' /\ files'[p].kind = files[p].kind
              /\ Cardinality({i \in DOMAIN out' :
                                 out'[i] \in {AdvancedStatus(TRUE), AdvancedStatus(FALSE)}}) = 1
              /\ AdvancedStatus(TRUE) \in Range(out') <=> k = Len(AdvancedCharts)
              /\ AdvancedStatus(FALSE) \in Range(out') <=> k < Len(AdvancedCharts)]_vars

C23_Witness ==
    /\ res.op = "process_and_display" /\ res.val.args[1]
    /\ AdvancedStatus(FALSE) \in Range(out)
    /\ (CONFIG.output_dir \o "stock_levels.png") \in DOMAIN files
    /\ \A i \in DOMAIN AdvancedCharts : AdvancedCharts[i] \notin DOMAIN files

-----------------------------------------------------------------------------
(* inventory_vector.py: process_and_display of the vector analyzer *)

\* InventoryVectorProcessor.process_and_display on the table data:
\* c1, c2 = num_cols[:2] needs two numeric columns, the unit vectors need
\* non-zero columns, the exports need CONFIG.output_dir
vector_process_and_display(fs, data) ==
    LET num_cols == NumberColumns(data)
        cat_cols == ObjectColumns(data)
        uv1 == unit_vector(Column(data, num_cols[1]))
        uv2 == unit_vector(Column(data, num_cols[2]))
        reports == <<"Joint Counts", "Joint Probabilities", "Conditional Probabilities",
                     "Vector Operations">>
        cat == cat_cols[1]
        pairs(tuples) ==
            to_csv(Table(<<cat \o "1", cat \o "2">>,
                         [i \in DOMAIN tuples |->
                             (cat \o "1" :> tuples[i][1]) @@ (cat \o "2" :> tuples[i][2])]),
                   {})
        out_dir == ConfigAttr("output_dir")
        exported ==
            Written(Written(fs, out_dir.ret \o cat \o "_combinations.csv",
                            pairs(generate_combinations(data, cat, 2))),
                    out_dir.ret \o cat \o "_permutations.csv",
                    pairs(generate_permutations(data, cat, 2)))
        result(raised, e, lines, written) ==
            [raised |-> raised, exc |-> e, out |-> lines, files |-> written]
    IN  IF Len(num_cols) < 2 THEN result(TRUE, "ValueError", <<>>, fs)
        ELSE IF uv1.raised \/ uv2.raised THEN result(TRUE, "ValueError", reports, fs)
        ELSE IF cat_cols = <<>>
        THEN result(FALSE, "", reports \o <<"No categorical column found for combos/perms.">>, fs)
        ELSE IF out_dir.raised
        THEN result(TRUE, out_dir.exc, reports \o <<"Combinations", "Permutations">>, fs)
        ELSE result(FALSE, "", reports \o <<"Combinations", "Permutations">>, exported)

\* InventoryVectorProcessor(vec_parent._data).process_and_display()
VectorProcessAndDisplay ==
    /\ pc = "session" /\ df.kind = "table"
    /\ LET shown == vector_process_and_display(files, df)
       IN  /\ res' = [op |-> "process_and_display",
                      val |-> [args |-> <<>>, r |-> [raised |-> shown.raised,
                                                     exc |-> shown.exc]]]
           /\ out' = shown.out
           /\ files' = shown.files
    /\ pc' = "done"
    /\ UNCHANGED <<runMode, stdin, reads, workflow, menus, exc, df, obj>>

NextVector ==
    \/ FromPickle
    \/ UnitVector
    \/ ProjectionVector
    \/ AngleBetween
    \/ DotProduct
    \/ VectorOpsAngle
    \/ VectorProcessAndDisplay

SpecVector == InitVector /\ [][NextVector]_vars

\* C24: when the numeric workflow runs with visualizations chosen, the rows
\* of items_below_reorder() are exported to below_reorder.csv in the output
\* directory; when the vector analyzer's display runs on a table with a
\* categorical column, the combinations and the permutations are exported to
\* {column}_combinations.csv and {column}_permutations.csv there.
C24_EnumerationsExported ==
    (res.op = "process_and_display" /\ ObjectColumns(df) # <<>>) =>
        LET cat == ObjectColumns(df)[1]
            combs == CONFIG.output_dir \o cat \o "_combinations.csv"
            perms == CONFIG.output_dir \o cat \o "_permutations.csv"
        IN  /\ ~res.val.r.raised
            /\ combs \in DOMAIN files /\ files[combs].kind = "text"
            /\ Len(files[combs].rows) = Len(generate_combinations(df, cat, 2))
            /\ perms \in DOMAIN files /\ files[perms].kind = "text"
            /\ Len(files[perms].rows) = Len(generate_permutations(df, cat, 2))

\* C28: on a loaded table with fewer than two numeric columns the vector
\* workflow skips the joint report and the vector operations without using
\* an unassigned column name, still processes the combinations and the
\* permutations when there is a categorical column, and returns True; and
\* InventoryVectorProcessor.process_and_display on such a table completes
\* without an error.
C28_FewerThanTwoNumericColumns ==
    (df.kind = "table" /\ Len(NumberColumns(df)) < 2) =>
        /\ LET r == process_vector_data(files)
               enumerated == <<"Combinations", "Permutations">>
           IN  /\ ~r.raised /\ r.ret = TRUE
               /\ Head(r.out) = "Not enough numeric columns for joint analytics."
               /\ ObjectColumns(df) # <<>> => Tail(r.out) = enumerated
        /\ res.op = "process_and_display" => ~res.val.r.raised

-----------------------------------------------------------------------------
(* ui.py: get_user_choice, and the menu sessions *)

\* get_user_choice with the test 1 <= choice
get_user_choice_no_upper(line) ==
    LET choice == PyInt(line)
    IN  IF choice.raised
        THEN [returned |-> FALSE, ret |-> 0, out |-> <<"Error: Please enter a valid number.">>]
        ELSE IF 1 <= choice.ret
        THEN [returned |-> TRUE, ret |-> choice.ret, out |-> <<>>]
        ELSE [returned |-> FALSE, ret |-> 0,
              out |-> <<"Error: Please enter a number between 1 and 5.">>]

\* one pass of the loop of ui.get_user_choice on the line input() returned
get_user_choice(line) ==
    LET choice == PyInt(line)
    IN  IF choice.raised
        THEN [returned |-> FALSE, ret |-> 0, out |-> <<"Error: Please enter a valid number.">>]
        ELSE IF 1 <= choice.ret /\ choice.ret <= 5
        THEN [returned |-> TRUE, ret |-> choice.ret, out |-> <<>>]
        ELSE [returned |-> FALSE, ret |-> 0,
              out |-> <<"Error: Please enter a number between 1 and 5.">>]

\* choice = ui.get_user_choice(): the user types a line, the loop returns
\* the choice or prints the error and prompts again
GetUserChoice ==
    /\ pc = "get_user_choice"
    /\ reads < MaxReads
    /\ \E line \in SeqsUpTo({"0", "1", "5", "6", "-", " ", "y"}, MaxLineLen) :
           LET r == get_user_choice(line)
           IN  /\ res' = [op |-> "get_user_choice", val |-> [args |-> <<line>>, r |-> r]]
               /\ out' = r.out
               /\ pc' = IF r.returned THEN "done" ELSE pc
    /\ reads' = reads + 1
    /\ UNCHANGED <<runMode, exc, stdin, workflow, menus, files, df, obj>>

\* main() started on the input files, or a call of get_user_choice()
InitMenu ==
    \/ InitLive
    \/ /\ runMode = "ui"
       /\ pc = "get_user_choice"
       /\ exc = ""
       /\ stdin = NoLine
       /\ reads = 0
       /\ workflow = 0
       /\ out = <<>>
       /\ menus = 0
       /\ files = PickleSystem(NoFile("missing"))
       /\ df = Unset
       /\ obj = "none"
       /\ res = NoResult

SpecMenu == InitMenu /\ [][Next \/ GetUserChoice]_vars

\* C25: at the main menu an input that is not an integer, or an integer
\* outside 1..4, starts no workflow and does not exit: the menu is displayed
\* again and the program state is otherwise unchanged; get_user_choice
\* returns only an integer in 1..5 and prompts again on every other input.
C25_InvalidChoiceRedisplays ==
    [][/\ (/\ pc = "MainMenu" /\ stdin # NoLine /\ stdin' = NoLine
           /\ (PyInt(stdin).raised \/ PyInt(stdin).ret \notin 1..4))
          => /\ pc' = "MainMenu" /\ workflow' = 0 /\ menus' = menus + 1
             /\ out' = <<>> /\ exc' = exc /\ reads' = reads
             /\ UNCHANGED <<runMode, files, df, obj, res>>
       /\ res'.op = "get_user_choice"
          => LET line == res'.val.args[1]
                 r == res'.val.r
                 valid == ~PyInt(line).raised /\ PyInt(line).ret \in 1..5
             IN  /\ pc = "get_user_choice"
                 /\ r.returned <=> valid
                 /\ valid => pc' = "done" /\ r.ret = PyInt(line).ret
                 /\ ~valid => pc' = "get_user_choice" /\ Len(out') = 1]_vars

C25_Witness ==
    /\ pc = "MainMenu" /\ stdin = NoLine
    /\ menus = 3 /\ reads = 2
    /\ out = <<>> /\ workflow = 0

-----------------------------------------------------------------------------
(* Claims about Run All and the start-up gate *)

\* C26: selecting Run All processes the numeric data with the
\* visualizations generated automatically: between the selection and the
\* return to the main menu the user is never asked 'Generate
\* visualizations? (y/n)'.
C26_RunAllNeverPrompts ==
    [][(/\ pc = "Running" /\ workflow = 3
        /\ files[CONFIG.inventory_numeric_csv] = SampleNumeric)
          => /\ pc' = "MainMenu"
             /\ VizPrompt \notin Range(out')
             /\ \E ok \in BOOLEAN : Status("Numeric visualizations", ok) \in Range(out')]_vars

BothInputsExist ==
    /\ exists(files, CONFIG.inventory_numeric_csv)
    /\ exists(files, CONFIG.inventory_categorical_csv)

\* C27: main() shows the main menu only after confirm_file_paths() returned
\* True; confirm_file_paths returns True without asking when both
\* configured input files exist, and otherwise only if the user answers
\* 'y'; when it returns False main returns without displaying the menu or
\* running a workflow.
C27_StartUpGate ==
    [][/\ (menus = 0 /\ menus' > 0)
            => \/ pc = "main" /\ BothInputsExist /\ reads = 0
               \/ /\ pc = "confirm" /\ ~BothInputsExist
                  /\ stdin # NoLine /\ Lower(stdin) = <<"y">>
       /\ (pc = "main" /\ pc' # "main")
            => IF BothInputsExist THEN pc' = "MainMenu" /\ menus' = 1
               ELSE pc' = "confirm" /\ menus' = 0
       /\ (pc = "confirm" /\ stdin # NoLine /\ stdin' = NoLine)
            => IF Lower(stdin) = <<"y">> THEN pc' = "MainMenu" /\ menus' = 1
               ELSE pc' = "Declined" /\ menus' = 0
       /\ pc = "Declined" => pc' = "Declined" /\ menus' = 0 /\ workflow' = 0
       /\ pc' = "Running" => menus > 0]_vars

C27_Witness ==
    /\ pc = "Declined" /\ reads = 1 /\ menus = 0 /\ workflow = 0
    /\ exists(files, CONFIG.inventory_numeric_csv)
    /\ ~exists(files, CONFIG.inventory_categorical_csv)
=============================================================================
